---- MODULE Spec2Model ----
(***************************************************************************)
(* Model of flashcard_generator.py: section segmentation                   *)
(* (extract_sections and its two segmenters), the chunk splitter           *)
(* (chunk_text) and the generation coordinator (generate_flashcards and    *)
(* the loop of main that drives it).                                       *)
(*                                                                         *)
(* Python strings are modelled as sequences of one-character strings, so   *)
(* that len, slicing, strip, join and concatenation are computed and not   *)
(* assumed.  A value that may be None is <<>> for None and <<n>> for n.     *)
(***************************************************************************)
EXTENDS Integers, Sequences, FiniteSets, TLC

VARIABLES
    mode,           \* which entry point this behaviour exercises
    \* ---- chunk_text(text, max_chars, overlap)
    c_pc,           \* position inside chunk_text
    text,           \* parameter text
    max_chars,      \* parameter max_chars
    overlap,        \* parameter overlap
    start,          \* local start
    chunks,         \* local chunks / the returned list
    \* ---- extract_sections and the two segmenters
    s_pc,           \* position inside extract_sections
    doc,            \* the opened document: pages and outline
    toc_i,          \* loop index i of extract_sections_from_toc
    toc_sections,   \* local sections of extract_sections_from_toc
    toc_visits,     \* per outline entry: the page indices read (doc[pg])
    all_spans,      \* local all_spans of extract_sections_by_font_size
    median_size,    \* local median_size
    span_i,         \* position of the span loop (1-based)
    font_sections,  \* local sections of extract_sections_by_font_size
    current_title,  \* local current_title
    current_text,   \* local current_text (list of lines)
    headings,       \* indices of the spans that took the heading branch
    ran,            \* strategies run so far, in order
    sections,       \* local sections of extract_sections / its result
    \* ---- main and generate_flashcards
    g_pc,           \* position inside main / generate_flashcards
    g_sections,     \* sections returned by extract_sections to main
    max_cards,      \* args.max_cards (None when the option is absent)
    sec_i,          \* main's loop index i (1-based)
    chunk_i,        \* generate_flashcards' loop index i (0-based)
    sec_cards,      \* generate_flashcards' local all_cards
    main_cards,     \* main's all_cards
    calls,          \* log of client.messages.create calls
    returned,       \* per section: the list generate_flashcards returned
    written         \* rows handed to write_tsv (None when not called)

chunk_vars == <<c_pc, text, max_chars, overlap, start, chunks>>
seg_vars == <<s_pc, doc, toc_i, toc_sections, toc_visits, all_spans, median_size,
              span_i, font_sections, current_title, current_text, headings, ran,
              sections>>
gen_vars == <<g_pc, g_sections, max_cards, sec_i, chunk_i, sec_cards, main_cards,
              calls, returned, written>>
vars == <<mode, chunk_vars, seg_vars, gen_vars>>

\* Python's None, and an int n where None is possible: <<>> and <<n>>
None == <<>>
Some(n) == <<n>>
Value(x) == x[1]

----------------------------------------------------------------------------
(* Bounds of the model *)

\* longest text handed directly to chunk_text
MaxLen == 7
\* largest max_chars / overlap handed directly to chunk_text
MaxParam == 4

----------------------------------------------------------------------------
(* Python primitives *)

Min(S) == CHOOSE x \in S : \A y \in S : x <= y
Max(S) == CHOOSE x \in S : \A y \in S : x >= y

\* str.isspace for the characters used here
IsSpace(c) == c \in {" ", "\n"}

\* str.strip(): drop leading and trailing whitespace
Strip(s) ==
    LET keep == {i \in 1..Len(s) : ~IsSpace(s[i])}
    IN  IF keep = {} THEN <<>> ELSE SubSeq(s, Min(keep), Max(keep))

\* a slice index clamped as Python does for s[a:b]
SliceIndex(i, n) == IF i < 0 THEN (IF i + n < 0 THEN 0 ELSE i + n)
                    ELSE (IF i > n THEN n ELSE i)

\* s[a:b]
PySlice(s, a, b) ==
    LET lo == SliceIndex(a, Len(s))
        hi == SliceIndex(b, Len(s))
    IN  IF lo < hi THEN SubSeq(s, lo + 1, hi) ELSE <<>>

\* list(range(a, b))
PyRange(a, b) == IF a < b THEN [k \in 1..(b - a) |-> a + k - 1] ELSE <<>>

\* the concatenation of a list of strings
RECURSIVE Concat(_)
Concat(ss) == IF ss = <<>> THEN <<>> ELSE Head(ss) \o Concat(Tail(ss))

\* sep.join(lines)
RECURSIVE Join(_, _)
Join(sep, lines) ==
    IF lines = <<>> THEN <<>>
    ELSE IF Len(lines) = 1 THEN lines[1]
    ELSE lines[1] \o sep \o Join(sep, Tail(lines))

----------------------------------------------------------------------------
(* chunk_text *)

Alphabet == <<"a", "b", "c", "d", "e", "f", "g", "h", "i", "j">>

\* the longest list the capped loop of chunk_text is allowed to build; a call
\* with 0 <= overlap < max_chars on a text of length n emits at most n chunks
MaxChunks == MaxLen + 2

ChunkIdle ==
    /\ c_pc = "idle" /\ text = <<>> /\ max_chars = 0 /\ overlap = 0
    /\ start = 0 /\ chunks = <<>>

\* line 138
ChunkEnd(s, m) == s + m

\* line 141 (a loop that forgets the overlap)
NextStartNoOverlap(e, o) == e

\* line 141
NextStart(e, o) == e - o

\* lines 132-133: the text fits, it is returned as the only chunk
ChunkWhole ==
    /\ c_pc = "call"
    /\ Len(text) <= max_chars
    /\ chunks' = <<text>>
    /\ c_pc' = "done"
    /\ UNCHANGED <<text, max_chars, overlap, start>>

\* lines 135-136: the text does not fit, the loop is set up
ChunkSetup ==
    /\ c_pc = "call"
    /\ ~(Len(text) <= max_chars)
    /\ chunks' = <<>>
    /\ start' = 0
    /\ c_pc' = "loop"
    /\ UNCHANGED <<text, max_chars, overlap>>

\* lines 137-141: one iteration of the while loop
ChunkLoop ==
    /\ c_pc = "loop"
    /\ start < Len(text)
    /\ Len(chunks) < MaxChunks
    /\ LET end == ChunkEnd(start, max_chars)
       IN  /\ chunks' = Append(chunks, PySlice(text, start, end))
           /\ start' = NextStart(end, overlap)
    /\ UNCHANGED <<c_pc, text, max_chars, overlap>>

\* lines 137, 142: the loop condition fails, chunks is returned
ChunkReturn ==
    /\ c_pc = "loop"
    /\ ~(start < Len(text))
    /\ c_pc' = "done"
    /\ UNCHANGED <<text, max_chars, overlap, start, chunks>>

----------------------------------------------------------------------------
(* extract_sections_from_toc *)

\* largest number of pages of a document
MaxPages == 3
\* largest number of outline entries of a document
MaxToc == 3
\* largest number of spans of a document without outline
MaxSpans == 3

SegIdle ==
    /\ s_pc = "idle" /\ doc = None /\ toc_i = 0 /\ toc_sections = <<>>
    /\ toc_visits = <<>> /\ all_spans = <<>> /\ median_size = 0 /\ span_i = 0
    /\ font_sections = <<>> /\ current_title = <<>> /\ current_text = <<>>
    /\ headings = {} /\ ran = <<>> /\ sections = <<>>

\* len(doc)
PageCount(d) == Len(d.pages)

\* line 45: start_page of outline entry i (0-based) 
TocStartPage(toc, i) == toc[i + 1].page - 1

\* lines 46-49 with the next entry's own page taken as the end
TocEndPageNoShift(toc, i, n) ==
    IF i + 1 < Len(toc) THEN toc[i + 2].page ELSE n

\* lines 46-49: end_page of outline entry i (0-based) in a document of n pages
TocEndPage(toc, i, n) ==
    IF i + 1 < Len(toc) THEN toc[i + 2].page - 1 ELSE n

\* line 52: the page indices the inner loop reads
TocPageRange(toc, i, n) ==
    LET start_page == TocStartPage(toc, i)
        end_page == TocEndPage(toc, i, n)
    IN  PyRange(IF 0 > start_page THEN 0 ELSE start_page,
                IF end_page < n THEN end_page ELSE n)

\* lines 51-53: the text accumulated over those pages
PagesText(d, pgs) == Concat([k \in 1..Len(pgs) |-> d.pages[pgs[k] + 1].text])

\* line 56 without the test
KeepAnyText(t) == TRUE

\* line 56: "if text:"
KeepText(t) == t # <<>>

\* lines 38-40: no outline, the segmenter returns []
TocNone ==
    /\ s_pc = "toc"
    /\ doc.toc = <<>>
    /\ toc_sections' = <<>>
    /\ ran' = Append(ran, "toc")
    /\ s_pc' = "toc_ret"
    /\ UNCHANGED <<doc, toc_i, toc_visits, all_spans, median_size, span_i,
                   font_sections, current_title, current_text, headings, sections>>

\* lines 38-43: an outline exists, the loop over its entries starts
TocBegin ==
    /\ s_pc = "toc"
    /\ doc.toc # <<>>
    /\ toc_sections' = <<>>
    /\ toc_i' = 0
    /\ ran' = Append(ran, "toc")
    /\ s_pc' = "toc_loop"
    /\ UNCHANGED <<doc, toc_visits, all_spans, median_size, span_i,
                   font_sections, current_title, current_text, headings, sections>>

\* lines 43-57: one outline entry
TocEntry ==
    /\ s_pc = "toc_loop"
    /\ toc_i < Len(doc.toc)
    /\ LET pgs == TocPageRange(doc.toc, toc_i, PageCount(doc))
           t == Strip(PagesText(doc, pgs))
       IN  /\ toc_visits' = Append(toc_visits, pgs)
           /\ toc_sections' =
                IF KeepText(t)
                THEN Append(toc_sections,
                            [title |-> Strip(doc.toc[toc_i + 1].title), text |-> t])
                ELSE toc_sections
    /\ toc_i' = toc_i + 1
    /\ UNCHANGED <<s_pc, doc, all_spans, median_size, span_i, font_sections,
                   current_title, current_text, headings, ran, sections>>

\* line 59: the loop is over, sections is returned
TocReturn ==
    /\ s_pc = "toc_loop"
    /\ toc_i = Len(doc.toc)
    /\ s_pc' = "toc_ret"
    /\ UNCHANGED <<doc, toc_i, toc_sections, toc_visits, all_spans, median_size,
                   span_i, font_sections, current_title, current_text, headings,
                   ran, sections>>

----------------------------------------------------------------------------
(* extract_sections_by_font_size *)

INTRODUCTION == <<"I", "n", "t", "r", "o", "d", "u", "c", "t", "i", "o", "n">>

\* line 88: a heading's trimmed text is shorter than this
HEADING_MAX_LEN == 200

\* lines 64-71: the non-blank spans of all pages, in page and reading order
CollectSpans(d) ==
    SelectSeq(Concat([p \in 1..PageCount(d) |-> d.pages[p].spans]),
              LAMBDA sp : Strip(sp.text) # <<>>)

\* list.sort() on a list of numbers
RECURSIVE Insert(_, _)
Insert(x, sorted) ==
    IF sorted = <<>> THEN <<x>>
    ELSE IF x <= Head(sorted) THEN <<x>> \o sorted
    ELSE <<Head(sorted)>> \o Insert(x, Tail(sorted))

RECURSIVE Sort(_)
Sort(xs) == IF xs = <<>> THEN <<>> ELSE Insert(Head(xs), Sort(Tail(xs)))

\* line 79 taking the largest size instead of the middle one
LargestSize(spans) ==
    LET sizes == Sort([k \in 1..Len(spans) |-> spans[k].size])
    IN  sizes[Len(sizes)]

\* lines 77-79: sizes[len(sizes) // 2] of the sorted sizes (0-based index)
MedianSize(spans) ==
    LET sizes == Sort([k \in 1..Len(spans) |-> spans[k].size])
    IN  sizes[(Len(sizes) \div 2) + 1]

\* line 88 comparing against the median itself
IsHeadingNoFactor(sp, median) ==
    /\ sp.size >= median
    /\ Len(Strip(sp.text)) < HEADING_MAX_LEN

\* lines 80, 88: size >= median_size * 1.2 and len(text) < 200
\* (sizes are whole numbers; size >= 1.2 * m is compared as 10 * size >= 12 * m)
IsHeading(sp, median) ==
    /\ 10 * sp.size >= 12 * median
    /\ Len(Strip(sp.text)) < HEADING_MAX_LEN

\* lines 93, 104: the body of a section
SectionOf(title, lines) == [title |-> title, text |-> Join(<<"\n">>, lines)]

\* lines 64-74: no non-blank span, the segmenter returns []
FontNoSpans ==
    /\ s_pc = "font"
    /\ CollectSpans(doc) = <<>>
    /\ all_spans' = <<>>
    /\ font_sections' = <<>>
    /\ ran' = Append(ran, "font")
    /\ s_pc' = "font_ret"
    /\ UNCHANGED <<doc, toc_i, toc_sections, toc_visits, median_size, span_i,
                   current_title, current_text, headings, sections>>

\* lines 64-84: spans collected, median taken, the span loop starts
FontBegin ==
    /\ s_pc = "font"
    /\ CollectSpans(doc) # <<>>
    /\ all_spans' = CollectSpans(doc)
    /\ median_size' = MedianSize(all_spans')
    /\ font_sections' = <<>>
    /\ current_title' = INTRODUCTION
    /\ current_text' = <<>>
    /\ span_i' = 1
    /\ ran' = Append(ran, "font")
    /\ s_pc' = "font_loop"
    /\ UNCHANGED <<doc, toc_i, toc_sections, toc_visits, headings, sections>>

\* lines 86-98: one span
FontSpan ==
    /\ s_pc = "font_loop"
    /\ span_i <= Len(all_spans)
    /\ LET span == all_spans[span_i]
           t == Strip(span.text)
       IN  IF IsHeading(span, median_size)
           THEN /\ font_sections' =
                     IF current_text # <<>>
                     THEN Append(font_sections, SectionOf(current_title, current_text))
                     ELSE font_sections
                /\ current_title' = t
                /\ current_text' = <<>>
                /\ headings' = headings \cup {span_i}
           ELSE /\ current_text' = Append(current_text, t)
                /\ UNCHANGED <<font_sections, current_title, headings>>
    /\ span_i' = span_i + 1
    /\ UNCHANGED <<s_pc, doc, toc_i, toc_sections, toc_visits, all_spans,
                   median_size, ran, sections>>

\* lines 100-107: the last section, then return
FontReturn ==
    /\ s_pc = "font_loop"
    /\ span_i > Len(all_spans)
    /\ font_sections' =
         IF current_text # <<>>
         THEN Append(font_sections, SectionOf(current_title, current_text))
         ELSE font_sections
    /\ s_pc' = "font_ret"
    /\ UNCHANGED <<doc, toc_i, toc_sections, toc_visits, all_spans, median_size,
                   span_i, current_title, current_text, headings, ran, sections>>

----------------------------------------------------------------------------
(* extract_sections *)

FULL_DOCUMENT == <<"F", "u", "l", "l", " ", "D", "o", "c", "u", "m", "e", "n", "t">>

\* lines 115, 119 with the test always taken
NotSectionsAlways(secs) == TRUE

\* lines 115, 119: "if not sections:"
NotSections(secs) == secs = <<>>

\* lines 121-124: the whole document as one section
WholeDocument(d) ==
    [title |-> FULL_DOCUMENT,
     text |-> Strip(Concat([p \in 1..PageCount(d) |-> d.pages[p].text]))]

\* lines 114-115: the outline gave sections, the font segmenter is skipped
TocSucceeded ==
    /\ s_pc = "toc_ret"
    /\ ~NotSections(toc_sections)
    /\ sections' = toc_sections
    /\ s_pc' = "assigned"
    /\ UNCHANGED <<doc, toc_i, toc_sections, toc_visits, all_spans, median_size,
                   span_i, font_sections, current_title, current_text, headings, ran>>

\* lines 114-117: the outline gave nothing, the font segmenter is called
TocFailed ==
    /\ s_pc = "toc_ret"
    /\ NotSections(toc_sections)
    /\ sections' = toc_sections
    /\ s_pc' = "font"
    /\ UNCHANGED <<doc, toc_i, toc_sections, toc_visits, all_spans, median_size,
                   span_i, font_sections, current_title, current_text, headings, ran>>

\* line 117: the font segmenter's result is assigned
FontAssigned ==
    /\ s_pc = "font_ret"
    /\ sections' = font_sections
    /\ s_pc' = "assigned"
    /\ UNCHANGED <<doc, toc_i, toc_sections, toc_visits, all_spans, median_size,
                   span_i, font_sections, current_title, current_text, headings, ran>>

\* lines 119-127: still no sections, the whole document is the one section
Fallback ==
    /\ s_pc = "assigned"
    /\ NotSections(sections)
    /\ sections' = <<WholeDocument(doc)>>
    /\ ran' = Append(ran, "fallback")
    /\ s_pc' = "done"
    /\ UNCHANGED <<doc, toc_i, toc_sections, toc_visits, all_spans, median_size,
                   span_i, font_sections, current_title, current_text, headings>>

\* lines 119, 126-127: sections exist, they are returned
ReturnSections ==
    /\ s_pc = "assigned"
    /\ ~NotSections(sections)
    /\ s_pc' = "done"
    /\ UNCHANGED <<doc, toc_i, toc_sections, toc_visits, all_spans, median_size,
                   span_i, font_sections, current_title, current_text, headings,
                   ran, sections>>

----------------------------------------------------------------------------
(* generate_flashcards, sanitize_tag, write_tsv and main *)

\* line 32, scaled down: the texts of the model are a few characters long
MAX_SECTION_CHARS == 4
\* line 33, scaled down with it
CHUNK_OVERLAP == 1
\* largest value of --max-cards
MaxBudget == 3
\* largest number of cards in one reply of the generation service
MaxReply == 2

GenIdle ==
    /\ g_pc = "idle" /\ g_sections = <<>> /\ max_cards = None /\ sec_i = 0
    /\ chunk_i = 0 /\ sec_cards = <<>> /\ main_cards = <<>> /\ calls = <<>>
    /\ returned = <<>> /\ written = None

\* line 151: the title sent with chunk i (0-based) of n
ChunkTitle(title, i, n) ==
    IF n = 1 THEN [title |-> title, part |-> None]
    ELSE [title |-> title, part |-> <<i + 1, n>>]

\* line 154: "if max_cards:" is false for None and for 0
Truthy(mc) == mc # None /\ Value(mc) # 0

\* line 155
Remaining(mc, cards) == Value(mc) - Len(cards)

\* lines 154-157: the loop is left before the call
BudgetSpent(mc, cards) == Truthy(mc) /\ Remaining(mc, cards) <= 0

\* line 158: the limit stated in the prompt, None when no limit is stated
PromptLimit(mc, cards) == IF Truthy(mc) THEN Some(Remaining(mc, cards)) ELSE None

\* the k-th pair of the reply to chunk i (0-based) of section s
Card(s, i, k) == [front |-> <<"Q", s, i, k>>, back |-> <<"A", s, i, k>>]

\* the replies of client.messages.create: text without "[...]", text whose
\* "[...]" is not JSON, or a JSON array of n {"front", "back"} objects
Replies == {[kind |-> "nomatch", n |-> 0], [kind |-> "badjson", n |-> 0]}
           \cup {[kind |-> "cards", n |-> n] : n \in 0..MaxReply}

\* lines 170-179 with the failed parse ending the loop
AfterSkipBreak(i, n) == n

\* lines 173, 179: after a failed parse the loop goes on with the next chunk
AfterSkip(i, n) == i + 1

\* lines 170-179: the cards one reply adds to all_cards
ParsedCards(reply, s, i) ==
    IF reply.kind = "cards" THEN [k \in 1..reply.n |-> Card(s, i, k)] ELSE <<>>

WordChars == {Alphabet[k] : k \in 1..Len(Alphabet)}
             \cup {"x", "y", "S", "F", "D", "I", "H", "_", "0", "1", "2"}

\* line 186: every character outside [\w\-] becomes "_"
Underscored(t) ==
    [k \in 1..Len(t) |-> IF t[k] \in WordChars \cup {"-"} THEN t[k] ELSE "_"]

\* line 187, re.sub(r"_+", "_", tag)
RECURSIVE Collapsed(_)
Collapsed(t) ==
    IF Len(t) <= 1 THEN t
    ELSE IF t[1] = "_" /\ t[2] = "_" THEN Collapsed(Tail(t))
    ELSE <<t[1]>> \o Collapsed(Tail(t))

\* line 187, .strip("_")
StripUnderscores(t) ==
    LET keep == {i \in 1..Len(t) : t[i] # "_"}
    IN  IF keep = {} THEN <<>> ELSE SubSeq(t, Min(keep), Max(keep))

\* lines 184-188
sanitize_tag(title) == StripUnderscores(Collapsed(Underscored(title)))

\* lines 234-236: every card of the section gets the section's tag
Tagged(cards, title) ==
    [k \in 1..Len(cards) |->
        [front |-> cards[k].front, back |-> cards[k].back,
         tag |-> sanitize_tag(title)]]

\* lines 195-197: the rows after the header
Rows(cards) == [k \in 1..Len(cards) |-> <<cards[k].front, cards[k].back, cards[k].tag>>]

\* lines 229-233, 147-148: the next section is handed to generate_flashcards,
\* which calls chunk_text(text) with the default max_chars and overlap
MainNextSection ==
    /\ g_pc = "main"
    /\ sec_i <= Len(g_sections)
    /\ text' = g_sections[sec_i].text
    /\ max_chars' = MAX_SECTION_CHARS
    /\ overlap' = CHUNK_OVERLAP
    /\ start' = 0
    /\ chunks' = <<>>
    /\ c_pc' = "call"
    /\ sec_cards' = <<>>
    /\ chunk_i' = 0
    /\ g_pc' = "gen"
    /\ UNCHANGED <<g_sections, max_cards, sec_i, main_cards, calls, returned, written>>

\* lines 150-157: the budget is used up, the loop is left and all_cards returned
GenBudgetBreak ==
    /\ g_pc = "gen" /\ c_pc = "done"
    /\ chunk_i < Len(chunks)
    /\ BudgetSpent(max_cards, sec_cards)
    /\ returned' = Append(returned, sec_cards)
    /\ g_pc' = "tag"
    /\ UNCHANGED <<chunk_vars, g_sections, max_cards, sec_i, chunk_i, sec_cards,
                   main_cards, calls, written>>

\* lines 150-179: one chunk is sent and the reply handled
GenCall(reply) ==
    /\ g_pc = "gen" /\ c_pc = "done"
    /\ chunk_i < Len(chunks)
    /\ ~BudgetSpent(max_cards, sec_cards)
    /\ sec_cards' = sec_cards \o ParsedCards(reply, sec_i, chunk_i)
    /\ calls' = Append(calls,
         [sec |-> sec_i,
          part |-> chunk_i + 1,
          total |-> Len(chunks),
          title |-> ChunkTitle(g_sections[sec_i].title, chunk_i, Len(chunks)),
          chunk |-> chunks[chunk_i + 1],
          limit |-> PromptLimit(max_cards, sec_cards),
          reply |-> reply.kind,
          before |-> sec_cards,
          after |-> sec_cards'])
    /\ chunk_i' = IF reply.kind = "cards" THEN chunk_i + 1
                  ELSE AfterSkip(chunk_i, Len(chunks))
    /\ UNCHANGED <<chunk_vars, g_pc, g_sections, max_cards, sec_i, main_cards,
                   returned, written>>

\* lines 170-173: the reply holds no "[...]"
GenCallNoMatch == GenCall([kind |-> "nomatch", n |-> 0])

\* lines 175-179: the "[...]" found is not JSON
GenCallInvalidJSON == GenCall([kind |-> "badjson", n |-> 0])

\* lines 175-177: the reply parses, its cards are appended
GenCallCards == \E n \in 0..MaxReply : GenCall([kind |-> "cards", n |-> n])

\* lines 150, 181: all chunks done, all_cards is returned
GenReturn ==
    /\ g_pc = "gen" /\ c_pc = "done"
    /\ chunk_i >= Len(chunks)
    /\ returned' = Append(returned, sec_cards)
    /\ g_pc' = "tag"
    /\ UNCHANGED <<chunk_vars, g_sections, max_cards, sec_i, chunk_i, sec_cards,
                   main_cards, calls, written>>

\* lines 234-239: the section's cards are tagged and added to main's list
MainTag ==
    /\ g_pc = "tag"
    /\ main_cards' = main_cards \o Tagged(sec_cards, g_sections[sec_i].title)
    /\ sec_i' = sec_i + 1
    /\ g_pc' = "main"
    /\ UNCHANGED <<chunk_vars, g_sections, max_cards, chunk_i, sec_cards, calls,
                   returned, written>>

\* lines 242-244: there are cards, the file is written
MainWrite ==
    /\ g_pc = "main"
    /\ sec_i > Len(g_sections)
    /\ main_cards # <<>>
    /\ written' = Rows(main_cards)
    /\ g_pc' = "done"
    /\ UNCHANGED <<chunk_vars, g_sections, max_cards, sec_i, chunk_i, sec_cards,
                   main_cards, calls, returned>>

\* lines 245-246: no card at all, nothing is written
MainNoCards ==
    /\ g_pc = "main"
    /\ sec_i > Len(g_sections)
    /\ main_cards = <<>>
    /\ g_pc' = "done"
    /\ UNCHANGED <<chunk_vars, g_sections, max_cards, sec_i, chunk_i, sec_cards,
                   main_cards, calls, returned, written>>

----------------------------------------------------------------------------
(* chunk_text called directly with arbitrary parameters *)

ChunkTexts == {SubSeq(Alphabet, 1, n) : n \in 0..MaxLen}

InitChunk ==
    /\ mode = "chunk"
    /\ c_pc = "call"
    /\ text \in ChunkTexts
    /\ max_chars \in 0..MaxParam
    /\ overlap \in 0..MaxParam
    /\ start = 0
    /\ chunks = <<>>
    /\ SegIdle
    /\ GenIdle

NextChunk ==
    \/ ChunkWhole /\ UNCHANGED <<mode, seg_vars, gen_vars>>
    \/ ChunkSetup /\ UNCHANGED <<mode, seg_vars, gen_vars>>
    \/ ChunkLoop /\ UNCHANGED <<mode, seg_vars, gen_vars>>
    \/ ChunkReturn /\ UNCHANGED <<mode, seg_vars, gen_vars>>

SpecChunk == InitChunk /\ [][NextChunk]_vars

----------------------------------------------------------------------------
(* the documents extract_sections is run on *)

Blank == <<" ", "\n">>

\* page p either holds one line with its own letter or only whitespace
PageText(p, filled) == IF filled THEN <<Alphabet[p], "\n">> ELSE Blank

Span(t, size) == [text |-> t, size |-> size]

\* a page whose only span is its line of text, in body size
TextPage(p, filled) ==
    [text |-> PageText(p, filled),
     spans |-> <<Span(SubSeq(PageText(p, filled), 1, 1), 10)>>]

OutlineEntry(k, page) ==
    [level |-> 1, title |-> <<" ", Alphabet[k], " ">>, page |-> page]

\* the outlines of up to MaxToc entries with target pages 0 .. MaxPages + 1
Outlines ==
    {[k \in 1..m |-> OutlineEntry(k, tp[k])] :
        <<m, tp>> \in {<<m, tp>> \in (1..MaxToc) \X
                           (UNION {[1..j -> 0..(MaxPages + 1)] : j \in 1..MaxToc}) :
                           DOMAIN tp = 1..m}}

\* the page lists of up to MaxPages pages, each page filled or blank
PageLists ==
    UNION {{[p \in 1..n |-> TextPage(p, fill[p])] : fill \in [1..n -> BOOLEAN]} :
              n \in 0..MaxPages}

\* documents with an outline
TocDocs == {[pages |-> pg, toc |-> ol] : pg \in PageLists, ol \in Outlines}

SpanTexts == {<<" ">>, <<"x">>, <<" ", "y", " ">>}
FontSizes == {10, 12, 20}
SpanChoices == {Span(t, z) : t \in SpanTexts, z \in FontSizes}

\* documents without outline: two pages, the first span on page one, the rest on
\* page two; the plain text of page one is blank or not
FontDocs ==
    {[pages |-> <<[text |-> PageText(1, filled),
                   spans |-> SubSeq(ss, 1, IF Len(ss) > 0 THEN 1 ELSE 0)],
                  [text |-> Blank, spans |-> SubSeq(ss, 2, Len(ss))]>>,
      toc |-> <<>>] :
        filled \in BOOLEAN,
        ss \in UNION {[1..n -> SpanChoices] : n \in 0..MaxSpans}}

\* eight spans of sizes 10,10,10,20,10,10,20,10, each with its own letter
C9Sizes == <<10, 10, 10, 20, 10, 10, 20, 10>>
C9Doc ==
    [pages |-> <<[text |-> Blank,
                  spans |-> [k \in 1..8 |-> Span(<<Alphabet[k]>>, C9Sizes[k])]]>>,
     toc |-> <<>>]

\* a large span too long to be a heading, between body spans and a heading
LongText == [k \in 1..HEADING_MAX_LEN |-> "x"]
LongSpanDoc ==
    [pages |-> <<[text |-> Blank,
                  spans |-> <<Span(<<"a">>, 10), Span(LongText, 20),
                              Span(<<"H">>, 20), Span(<<"b">>, 10),
                              Span(<<"c">>, 10)>>]>>,
     toc |-> <<>>]

\* a document with no page and no outline
EmptyDoc == [pages |-> <<>>, toc |-> <<>>]

Docs == TocDocs \cup FontDocs \cup {C9Doc, LongSpanDoc, EmptyDoc}

----------------------------------------------------------------------------
(* extract_sections run on a document *)

InitSeg ==
    /\ mode = "seg"
    /\ ChunkIdle
    /\ GenIdle
    /\ doc \in Docs
    /\ s_pc = "toc"
    /\ toc_i = 0 /\ toc_sections = <<>> /\ toc_visits = <<>>
    /\ all_spans = <<>> /\ median_size = 0 /\ span_i = 0 /\ font_sections = <<>>
    /\ current_title = <<>> /\ current_text = <<>> /\ headings = {}
    /\ ran = <<>> /\ sections = <<>>

NextSeg ==
    \/ TocNone /\ UNCHANGED <<mode, chunk_vars, gen_vars>>
    \/ TocBegin /\ UNCHANGED <<mode, chunk_vars, gen_vars>>
    \/ TocEntry /\ UNCHANGED <<mode, chunk_vars, gen_vars>>
    \/ TocReturn /\ UNCHANGED <<mode, chunk_vars, gen_vars>>
    \/ TocSucceeded /\ UNCHANGED <<mode, chunk_vars, gen_vars>>
    \/ TocFailed /\ UNCHANGED <<mode, chunk_vars, gen_vars>>
    \/ FontNoSpans /\ UNCHANGED <<mode, chunk_vars, gen_vars>>
    \/ FontBegin /\ UNCHANGED <<mode, chunk_vars, gen_vars>>
    \/ FontSpan /\ UNCHANGED <<mode, chunk_vars, gen_vars>>
    \/ FontReturn /\ UNCHANGED <<mode, chunk_vars, gen_vars>>
    \/ FontAssigned /\ UNCHANGED <<mode, chunk_vars, gen_vars>>
    \/ Fallback /\ UNCHANGED <<mode, chunk_vars, gen_vars>>
    \/ ReturnSections /\ UNCHANGED <<mode, chunk_vars, gen_vars>>

SpecSeg == InitSeg /\ [][NextSeg]_vars

----------------------------------------------------------------------------
(* main run on the sections extract_sections returned *)

\* texts that chunk_text splits into one, two and three chunks
OneChunkText == SubSeq(Alphabet, 1, 1)
TwoChunkText == SubSeq(Alphabet, 1, MAX_SECTION_CHARS + 1)
ThreeChunkText == SubSeq(Alphabet, 1, 2 * MAX_SECTION_CHARS - CHUNK_OVERLAP)

SectionTitle(k) == <<"S", " ", Alphabet[k], "!">>

\* the non-empty section lists main is run on: one or two sections of one or
\* two chunks, one section of three chunks, three sections of one chunk, and
\* the fallback's one section with empty text
SectionLists ==
    {[k \in 1..Len(ts) |-> [title |-> SectionTitle(k), text |-> ts[k]]] :
        ts \in UNION {[1..n -> {OneChunkText, TwoChunkText}] : n \in 1..2}
               \cup {<<ThreeChunkText>>,
                     <<OneChunkText, OneChunkText, OneChunkText>>}}
    \cup {<<[title |-> FULL_DOCUMENT, text |-> <<>>]>>}

InitGen ==
    /\ mode = "gen"
    /\ ChunkIdle
    /\ SegIdle
    /\ g_sections \in SectionLists
    /\ max_cards \in {None} \cup {Some(b) : b \in 0..MaxBudget}
    /\ g_pc = "main"
    /\ sec_i = 1
    /\ chunk_i = 0 /\ sec_cards = <<>> /\ main_cards = <<>> /\ calls = <<>>
    /\ returned = <<>> /\ written = None

NextGen ==
    \/ MainNextSection /\ UNCHANGED <<mode, seg_vars>>
    \/ ChunkWhole /\ UNCHANGED <<mode, seg_vars, gen_vars>>
    \/ ChunkSetup /\ UNCHANGED <<mode, seg_vars, gen_vars>>
    \/ ChunkLoop /\ UNCHANGED <<mode, seg_vars, gen_vars>>
    \/ ChunkReturn /\ UNCHANGED <<mode, seg_vars, gen_vars>>
    \/ GenBudgetBreak /\ UNCHANGED <<mode, seg_vars>>
    \/ GenCallNoMatch /\ UNCHANGED <<mode, seg_vars>>
    \/ GenCallInvalidJSON /\ UNCHANGED <<mode, seg_vars>>
    \/ GenCallCards /\ UNCHANGED <<mode, seg_vars>>
    \/ GenReturn /\ UNCHANGED <<mode, seg_vars>>
    \/ MainTag /\ UNCHANGED <<mode, seg_vars>>
    \/ MainWrite /\ UNCHANGED <<mode, seg_vars>>
    \/ MainNoCards /\ UNCHANGED <<mode, seg_vars>>

SpecGen == InitGen /\ [][NextGen]_vars

----------------------------------------------------------------------------
(* C1, C2 *)

ValidParams == 0 <= overlap /\ overlap < max_chars

\* the first k characters of every chunk except the last, then the last chunk
RECURSIVE Reassemble(_, _)
Reassemble(cs, k) ==
    IF cs = <<>> THEN <<>>
    ELSE IF Len(cs) = 1 THEN cs[1]
    ELSE SubSeq(cs[1], 1, IF k < Len(cs[1]) THEN k ELSE Len(cs[1]))
         \o Reassemble(Tail(cs), k)

\* C1: whenever 0 <= overlap < max_chars, the list chunk_text returns has every
\* chunk of length <= max_chars, and the first (max_chars - overlap) characters
\* of every chunk but the last followed by the whole last chunk are exactly the
\* text; a text with len(text) <= max_chars comes back as the single chunk.
C1_ChunksReconstructText ==
    (mode = "chunk" /\ c_pc = "done" /\ ValidParams) =>
        /\ \A k \in 1..Len(chunks) : Len(chunks[k]) <= max_chars
        /\ Reassemble(chunks, max_chars - overlap) = text
        /\ (Len(text) <= max_chars => chunks = <<text>>)

C1_Witness ==
    /\ mode = "chunk" /\ c_pc = "done" /\ ValidParams
    /\ overlap > 0
    /\ Len(chunks) >= 3
    /\ Len(chunks[Len(chunks)]) < overlap

\* C2: with overlap >= max_chars, chunk_text ends in a configuration error
\* before it emits anything: it never returns a list and never enters the loop.
C2_FailsFastOnBadOverlap ==
    (mode = "chunk" /\ overlap >= max_chars) =>
        (c_pc \in {"call", "error"} /\ chunks = <<>>)

\* C2, the looping half alone: with overlap >= max_chars and a text longer than
\* max_chars, the list of chunks never grows beyond what a window that
\* advances could emit (one chunk per character).
C2_NoUnboundedChunks ==
    (mode = "chunk" /\ overlap >= max_chars) => Len(chunks) <= Len(text) + 1

----------------------------------------------------------------------------
(* C3, C4, C8, C9, C10 *)

SegDone == mode = "seg" /\ s_pc = "done"

NonEmptyTrimmed(secs) == \A k \in 1..Len(secs) : Strip(secs[k].text) # <<>>

\* C3: the result of extract_sections is the outline segmenter's output when
\* that has a section, and then nothing else was run; otherwise the font
\* segmenter's output when that has a section, and then the fallback was not
\* run; otherwise exactly one section titled "Full Document".  It is never
\* empty.
C3_FirstSuccessWins ==
    SegDone =>
        /\ Len(sections) >= 1
        /\ IF toc_sections # <<>>
           THEN sections = toc_sections /\ ran = <<"toc">>
           ELSE IF font_sections # <<>>
           THEN sections = font_sections /\ ran = <<"toc", "font">>
           ELSE /\ Len(sections) = 1
                /\ sections[1].title = FULL_DOCUMENT
                /\ ran = <<"toc", "font", "fallback">>

\* an outline that yields nothing, then a section found by the font segmenter
C3_Witness ==
    /\ SegDone
    /\ doc.toc # <<>>
    /\ toc_sections = <<>>
    /\ Len(font_sections) >= 1
    /\ sections = font_sections
    /\ ran = <<"toc", "font">>

\* C4 as claimed: every section extract_sections returns has non-empty trimmed
\* text, whichever strategy produced it.
C4_AllSectionsNonEmpty == SegDone => NonEmptyTrimmed(sections)

\* C4 as amended: every section returned from the outline or the font-size
\* strategy has non-empty trimmed text; the whole-document fallback returns one
\* section whose text is the trimmed text of all pages, empty or not.
C4_SegmenterSectionsNonEmpty ==
    SegDone =>
        IF ran[Len(ran)] = "fallback"
        THEN /\ Len(sections) = 1
             /\ sections[1].text =
                  Strip(Concat([p \in 1..PageCount(doc) |-> doc.pages[p].text]))
        ELSE NonEmptyTrimmed(sections)

\* an outline of which one entry has only blank pages and is dropped
C4_Witness ==
    /\ SegDone
    /\ ran = <<"toc">>
    /\ Len(sections) >= 1
    /\ Len(sections) < Len(doc.toc)
    /\ \E k \in 1..Len(toc_visits) :
          toc_visits[k] # <<>> /\ Strip(PagesText(doc, toc_visits[k])) = <<>>

NonBlankSpans(d) ==
    SelectSeq(Concat([p \in 1..Len(d.pages) |-> d.pages[p].spans]),
              LAMBDA sp : \E k \in 1..Len(sp.text) : sp.text[k] \notin {" ", "\n"})

\* no outline, a non-blank span, and all non-blank spans of one font size
UniformNoOutline ==
    /\ doc.toc = <<>>
    /\ NonBlankSpans(doc) # <<>>
    /\ \A a, b \in 1..Len(NonBlankSpans(doc)) :
          NonBlankSpans(doc)[a].size = NonBlankSpans(doc)[b].size

\* C8 as claimed: on such a document the font segmenter returns nothing and
\* extract_sections returns the one section "Full Document".
C8_UniformFallsThrough ==
    (SegDone /\ UniformNoOutline) =>
        /\ font_sections = <<>>
        /\ Len(sections) = 1
        /\ sections[1].title = FULL_DOCUMENT

\* C8 as amended: on such a document the font segmenter returns exactly one
\* section, titled "Introduction", holding every non-blank span's trimmed
\* text in order, one per line; extract_sections returns that section and the
\* whole-document fallback is not run.
C8_UniformIsIntroduction ==
    (SegDone /\ UniformNoOutline) =>
        /\ Len(font_sections) = 1
        /\ font_sections[1].title = INTRODUCTION
        /\ font_sections[1].text =
             Join(<<"\n">>, [k \in 1..Len(NonBlankSpans(doc)) |->
                                Strip(NonBlankSpans(doc)[k].text)])
        /\ headings = {}
        /\ sections = font_sections
        /\ ran = <<"toc", "font">>

C8_Witness ==
    /\ SegDone /\ UniformNoOutline
    /\ Len(NonBlankSpans(doc)) >= 2
    /\ Len(sections) = 1
    /\ sections[1].title = INTRODUCTION

\* C9 as claimed: on the spans of sizes 10,10,10,20,10,10,20,10 the median is
\* 10, the threshold 12, the headings are the two spans of size 20, and
\* exactly 2 sections are emitted.
C9_TwoSections ==
    (SegDone /\ doc = C9Doc) =>
        /\ median_size = 10
        /\ headings = {4, 7}
        /\ Len(font_sections) = 2

\* C9 as amended: median 10, threshold 12, the headings are the two spans of
\* size 20, and exactly 3 sections are emitted: "Introduction" with spans 1-3,
\* the first heading with spans 5-6, the second heading with span 8, each body
\* in source order, one span per line.
C9_ThreeSections ==
    (SegDone /\ doc = C9Doc) =>
        /\ median_size = 10
        /\ \A k \in 1..8 : (k \in headings) <=> (10 * C9Sizes[k] >= 120)
        /\ headings = {4, 7}
        /\ font_sections =
             << [title |-> INTRODUCTION, text |-> <<"a", "\n", "b", "\n", "c">>],
                [title |-> <<"d">>, text |-> <<"e", "\n", "f">>],
                [title |-> <<"g">>, text |-> <<"h">>] >>
        /\ sections = font_sections

C9_Witness == SegDone /\ doc = C9Doc /\ Len(sections) = 3

\* the elements of a set of numbers in ascending order
RECURSIVE Ascending(_)
Ascending(S) == IF S = {} THEN <<>> ELSE <<Min(S)>> \o Ascending(S \ {Min(S)})

Larger(a, b) == IF a > b THEN a ELSE b
Smaller(a, b) == IF a < b THEN a ELSE b

\* the pages the claim gives to outline entry i (1-based) of a document of n pages
ClaimedPages(toc, i, n) ==
    LET upper == IF i < Len(toc) THEN Smaller(n, toc[i + 1].page - 1) ELSE n
    IN  {p \in 0..(n - 1) : Larger(0, toc[i].page - 1) <= p /\ p < upper}

StrictlyIncreasingWithin(toc, n) ==
    /\ \A k \in 1..Len(toc) : 1 <= toc[k].page /\ toc[k].page <= n
    /\ \A k \in 1..(Len(toc) - 1) : toc[k].page < toc[k + 1].page

SeqRange(q) == {q[k] : k \in 1..Len(q)}

TocRan == mode = "seg" /\ doc.toc # <<>> /\ s_pc \notin {"toc", "toc_loop"}

\* C10: once extract_sections_from_toc has returned, entry i has read exactly
\* the pages p with max(0, t_i - 1) <= p < min(N, t_{i+1} - 1) (N for the
\* last entry), in page order; for target pages strictly increasing within
\* 1..N the entries' pages are pairwise disjoint and together are the pages
\* t_1 - 1 .. N - 1; and the sections returned are, in outline order, those
\* of the entries whose trimmed text is not empty.
C10_TocPageRanges ==
    TocRan =>
        LET toc == doc.toc
            n == Len(doc.pages)
            entry(i) == [title |-> Strip(toc[i].title),
                         text |-> Strip(PagesText(doc, toc_visits[i]))]
        IN  /\ Len(toc_visits) = Len(toc)
            /\ \A i \in 1..Len(toc) :
                  toc_visits[i] = Ascending(ClaimedPages(toc, i, n))
            /\ StrictlyIncreasingWithin(toc, n) =>
                  /\ \A i, j \in 1..Len(toc) :
                        i # j => SeqRange(toc_visits[i]) \cap SeqRange(toc_visits[j]) = {}
                  /\ UNION {SeqRange(toc_visits[i]) : i \in 1..Len(toc)}
                        = (toc[1].page - 1)..(n - 1)
            /\ toc_sections =
                  SelectSeq([i \in 1..Len(toc) |-> entry(i)], LAMBDA e : e.text # <<>>)

\* entries on increasing pages, the first not on page 1, one of them dropped
C10_Witness ==
    /\ TocRan /\ s_pc = "done"
    /\ Len(doc.toc) >= 2
    /\ StrictlyIncreasingWithin(doc.toc, Len(doc.pages))
    /\ doc.toc[1].page > 1
    /\ Len(toc_sections) = Len(doc.toc) - 1

----------------------------------------------------------------------------
(* C5, C6, C7 *)

\* C5: with a maximum configured (any B >= 0, 0 included) the service is never
\* called for a chunk at whose start B minus the cards accumulated so far for
\* the section is <= 0.
C5_NoCallOnSpentBudget ==
    (mode = "gen" /\ max_cards # None) =>
        \A k \in 1..Len(calls) : Value(max_cards) - Len(calls[k].before) > 0

\* C6: with a budget B configured the list generate_flashcards returns for a
\* section holds at most B cards, whatever the service returns per call.
\* (Stated for B >= 1, where the guard of line 154 is taken; B = 0 is the
\* case of C5.)
C6_AtMostBudgetCards ==
    (mode = "gen" /\ max_cards # None /\ Value(max_cards) >= 1) =>
        \A k \in 1..Len(returned) : Len(returned[k]) <= Value(max_cards)

ParseFailed(c) == c.reply \in {"nomatch", "badjson"}

\* the cards the logged calls for section s added, in call order
RECURSIVE CardsAdded(_, _)
CardsAdded(cs, s) ==
    IF cs = <<>> THEN <<>>
    ELSE (IF Head(cs).sec = s
          THEN SubSeq(Head(cs).after, Len(Head(cs).before) + 1, Len(Head(cs).after))
          ELSE <<>>)
         \o CardsAdded(Tail(cs), s)

\* the loop of section c.sec has gone past the chunk after the one of call c
PastNextChunk(c) ==
    \/ sec_i > c.sec
    \/ sec_i = c.sec /\ (g_pc = "tag" \/ chunk_i > c.part)

\* C7: a call whose reply cannot be parsed adds no card and leaves the cards
\* accumulated so far as they were; no chunk is sent twice; the chunk after
\* it is still sent; the run is never stopped short of its end; and it ends
\* with every section processed and with exactly the cards of the parsed
\* replies, in order, in main's list.
C7_ParseFailureIsSkipped ==
    mode = "gen" =>
        /\ g_pc \in {"main", "gen", "tag", "done"}
        /\ g_pc # "done" => ENABLED NextGen
        /\ \A k \in 1..Len(calls) : ParseFailed(calls[k]) =>
              /\ calls[k].after = calls[k].before
              /\ (calls[k].part < calls[k].total /\ PastNextChunk(calls[k])) =>
                    \E j \in (k + 1)..Len(calls) :
                        calls[j].sec = calls[k].sec /\ calls[j].part = calls[k].part + 1
        /\ \A j, k \in 1..Len(calls) :
              (j # k) => <<calls[j].sec, calls[j].part>> # <<calls[k].sec, calls[k].part>>
        /\ \A s \in 1..Len(returned) : returned[s] = CardsAdded(calls, s)
        /\ g_pc = "done" =>
              /\ Len(returned) = Len(g_sections)
              /\ \A s \in 1..Len(g_sections) :
                    \E k \in 1..Len(calls) : calls[k].sec = s /\ calls[k].part = 1
              /\ main_cards =
                    Concat([s \in 1..Len(g_sections) |->
                               Tagged(returned[s], g_sections[s].title)])

\* both kinds of failure, each followed by a chunk of the same section and by
\* a later section that yield cards, and the file written at the end
C7_Witness ==
    /\ mode = "gen" /\ g_pc = "done"
    /\ written # None
    /\ \E k \in 1..Len(calls) :
          /\ calls[k].reply = "nomatch"
          /\ calls[k].before # <<>>
          /\ \E j \in (k + 1)..Len(calls) :
                calls[j].sec > calls[k].sec /\ Len(calls[j].after) > Len(calls[j].before)
    /\ \E k \in 1..Len(calls) :
          /\ calls[k].reply = "badjson"
          /\ \E j \in (k + 1)..Len(calls) :
                /\ calls[j].sec = calls[k].sec
                /\ Len(calls[j].after) > Len(calls[j].before)

====
